---- MODULE Spec2Model ----
(***************************************************************************)
(* A model of app.py: the Flask endpoint POST /upload, which saves an      *)
(* uploaded PDF under uploads/, extracts its text with PyMuPDF, falls back *)
(* to the ocr.space service when the text is short, sends the text to the  *)
(* Gemini model for a summary, removes the saved file and answers in JSON. *)
(*                                                                         *)
(* Requests are handled by the web server's worker threads.  Each worker   *)
(* runs upload_file step by step; a step ends at every access to the       *)
(* shared upload directory or to a remote service, so that TLC explores    *)
(* the interleavings of two requests.  The file system follows POSIX: a    *)
(* file can be removed whether or not it is open.  file.save (line 106) is *)
(* one step, and so is fitz.open .. doc.close (lines 108-110): the text is *)
(* that of the bytes found at the path when the document is opened.        *)
(*                                                                         *)
(* Spec lets the workers run side by side.  SpecAlone takes a request only *)
(* when no other is under way: the request-response cycle of one upload.   *)
(*                                                                         *)
(* Strings.  A string is a record: lit is the text the code wrote itself   *)
(* ("" for text that comes from a document or a service), lead, core and   *)
(* trail are the numbers of leading white-space characters, of characters  *)
(* from the first to the last non-white-space one, and of trailing         *)
(* white-space characters; ocr and gem say where the string holds the      *)
(* substrings "OCR.space Error:" and "Gemini Error:": "none", "start" (the *)
(* string begins with it) or "inside".                                     *)
(***************************************************************************)
EXTENDS Integers, Sequences, FiniteSets, TLC

\* ------------------------------------------------------------- bounds ----

\* Requests received in one behaviour.
MaxRequests == 2
\* Leading and trailing white space of a text: 0 .. MaxPad characters.
MaxPad == 1
\* Trimmed lengths of a PDF's text: from Spread below the OCR threshold.
Spread == 1

\* The worker threads of the web server.
Workers == {"w1", "w2"}

\* ------------------------------------------------------------ strings ----

OCR_THRESHOLD == 100
OCR_MARKER == "OCR.space Error:"
GEMINI_MARKER == "Gemini Error:"

Positions == {"none", "start", "inside"}

\* A string the code writes itself; o and g say where it holds a marker.
Lit(s, o, g) ==
    [lit |-> s, lead |-> 0, core |-> Len(s), trail |-> 0, ocr |-> o, gem |-> g]

NoText == Lit("", "none", "none")

\* A string received from a document or a service.  A marker fits only in a
\* core long enough for it, begins the string only when no white space leads
\* it, and two markers do not begin the same string.
WellFormed(t) ==
    /\ t.ocr = "start" => t.lead = 0 /\ t.core >= Len(OCR_MARKER)
    /\ t.ocr = "inside" => t.core > Len(OCR_MARKER)
    /\ t.gem = "start" => t.lead = 0 /\ t.core >= Len(GEMINI_MARKER)
    /\ t.gem = "inside" => t.core > Len(GEMINI_MARKER)
    /\ ~(t.ocr = "start" /\ t.gem = "start")
    /\ t.core = 0 => t.trail = 0

Texts(leads, cores, ocrs, gems) ==
    { t \in [lit : {""}, lead : leads, core : cores, trail : {0},
             ocr : ocrs, gem : gems] : WellFormed(t) }

\* str.strip()
strip(t) == [t EXCEPT !.lead = 0, !.trail = 0]

\* len(str)
len(t) == t.lead + t.core + t.trail

\* not str: only the empty string is false
falsy(t) == len(t) = 0

\* marker in str
contains(marker, t) ==
    IF marker = OCR_MARKER THEN t.ocr # "none" ELSE t.gem # "none"

\* --------------------------------------------------------- file names ----

\* A file name is the sequence of its characters.
PDF_EXT == <<".", "p", "d", "f">>

PdfNames == { <<"a">> \o PDF_EXT, <<"b">> \o PDF_EXT }

OtherNames ==
    { <<>>, <<"a", ".", "t", "x", "t">>, <<"a", ".", "P", "D", "F">>,
      <<"p", "d", "f">> }

\* str.endswith(suffix)
endswith(s, suffix) ==
    /\ Len(s) >= Len(suffix)
    /\ SubSeq(s, Len(s) - Len(suffix) + 1, Len(s)) = suffix

UPLOAD_FOLDER == <<"uploads">>

None == <<>>

\* One fixed name for every upload.
join_fixed(folder, filename) == folder \o <<"/", "a">> \o PDF_EXT

\* os.path.join(app.config['UPLOAD_FOLDER'], file.filename), for a plain
\* file name (no directory part).
join(folder, filename) == folder \o <<"/">> \o filename

Paths == { folder \o <<"/">> \o n : folder \in {UPLOAD_FOLDER}, n \in PdfNames }

\* -------------------------------------------------- uploads and disk ----

\* The text of a PDF's pages: none at all (a scanned PDF), or of a length at
\* or just below OCR_THRESHOLD.  A marker in it matters only in a text that
\* is kept, one of at least OCR_THRESHOLD characters.
PdfTexts ==
    { t \in Texts(0..MaxPad, (OCR_THRESHOLD - Spread) .. OCR_THRESHOLD,
                  {"none", "inside"}, {"none"}) :
        t.ocr # "none" => t.core >= OCR_THRESHOLD }
    \cup Texts({0}, {0}, {"none"}, {"none"})

\* The bytes of an uploaded file part: tag is the serial number of the
\* request that sent them, name the file name they were sent under, parse
\* whether PyMuPDF can read them, text the text of their pages.
Bodies(tag, name) ==
    [tag : {tag}, name : {name}, parse : {"ok"}, text : PdfTexts]
    \cup [tag : {tag}, name : {name}, parse : {"corrupt"}, text : {NoText}]

\* No file at a path.
Missing == [tag |-> 0, name |-> None, parse |-> "missing", text |-> NoText]

\* One scanned PDF, one PDF of text and one broken PDF.
PlainBodies(tag, name) ==
    { b \in Bodies(tag, name) :
        /\ b.text.lead = 0
        /\ b.text.ocr = "none"
        /\ b.text.core \in {0, OCR_THRESHOLD} }

\* request.files and the part named 'file' in it.
NoRequest == [hasFile |-> FALSE, filename |-> None, body |-> Missing]

\* The requests sent while another may be under way: no file part, a file
\* under a name that is turned down, and the plain bodies under each PDF name.
ConcurrentRequests(tag) ==
    { NoRequest }
    \cup UNION { [hasFile : {TRUE}, filename : {n}, body : PlainBodies(tag, n)] :
                 n \in PdfNames }
    \cup { [hasFile |-> TRUE, filename |-> n,
            body |-> [tag |-> tag, name |-> n, parse |-> "corrupt", text |-> NoText]] :
           n \in OtherNames }

\* The requests sent one at a time: those, and every body under the PDF name
\* "a.pdf".
Requests(tag) ==
    ConcurrentRequests(tag)
    \cup [hasFile : {TRUE}, filename : {<<"a">> \o PDF_EXT},
          body : Bodies(tag, <<"a">> \o PDF_EXT)]

\* os.getenv: None when the variable is not set, its value otherwise.
KeyValues == {"None", "key"}

\* The key is never looked at.
no_key_unchecked(key) == FALSE

\* not KEY: None and the empty string are false
no_key(key) == key \in {"None", ""}

\* ---------------------------------------------------- remote services ----

\* What ocr.space does with a request: the connection or the status fails
\* (RequestException), the answer is no JSON object, IsErroredOnProcessing
\* is set, ParsedResults holds text, or it holds nothing.
OcrTexts ==
    Texts(0..MaxPad, {0}, {"none"}, {"none"})
    \cup Texts({0}, {Len(OCR_MARKER) + 1}, Positions, {"none"})

OcrOutcomes ==
    [kind : {"network", "unexpected", "errored", "empty"}, text : {NoText}]
    \cup [kind : {"parsed"}, text : OcrTexts]

OCR_NO_KEY ==
    Lit("OCR.space Error: API key not found. Please create a .env file and add your OCR_SPACE_API_KEY.",
        "start", "none")

OCR_ERRORED == Lit("OCR.space Error: ", "start", "none")

OCR_NOTHING == Lit("OCR.space Error: No text could be parsed.", "start", "none")

\* The exception's own text.
OCR_NETWORK_bare == Lit("Network request failed. Details: ", "none", "none")

OCR_NETWORK ==
    Lit("OCR.space Error: Network request failed. Details: ", "start", "none")

OCR_UNEXPECTED ==
    Lit("OCR.space Error: An unexpected error occurred. Details: ", "start", "none")

\* ocr_with_ocrspace(file_path): ret is the string returned, posted whether
\* the request to ocr.space was made, sent the tag of the bytes read from
\* file_path, failed whether no text came back.  file is what lies at
\* file_path when it is opened.
ocr_with_ocrspace(key, file, svc) ==
    IF no_key(key)
    THEN [ret |-> OCR_NO_KEY, posted |-> FALSE, sent |-> 0, failed |-> TRUE]
    ELSE IF file = Missing
    THEN [ret |-> OCR_UNEXPECTED, posted |-> FALSE, sent |-> 0, failed |-> TRUE]
    ELSE IF svc.kind = "network"
    THEN [ret |-> OCR_NETWORK, posted |-> TRUE, sent |-> file.tag, failed |-> TRUE]
    ELSE IF svc.kind = "unexpected"
    THEN [ret |-> OCR_UNEXPECTED, posted |-> TRUE, sent |-> file.tag, failed |-> TRUE]
    ELSE IF svc.kind = "errored"
    THEN [ret |-> OCR_ERRORED, posted |-> TRUE, sent |-> file.tag, failed |-> TRUE]
    ELSE IF svc.kind = "parsed"
    THEN [ret |-> svc.text, posted |-> TRUE, sent |-> file.tag, failed |-> FALSE]
    ELSE [ret |-> OCR_NOTHING, posted |-> TRUE, sent |-> file.tag, failed |-> TRUE]

\* What the Gemini model does with a prompt: generate_content or
\* response.text raises, or the model answers with text.
GeminiTexts == Texts({0}, {Len(GEMINI_MARKER) + 1}, {"none"}, Positions)

GeminiOutcomes ==
    [kind : {"raised"}, text : {NoText}]
    \cup [kind : {"answered"}, text : GeminiTexts]

GEMINI_NO_KEY ==
    Lit("Gemini Error: API key not found. Please add GEMINI_API_KEY to your .env file.",
        "none", "start")

GEMINI_RAISED ==
    Lit("Gemini Error: An error occurred while generating the summary. Details: ",
        "none", "start")

\* summarize_with_ai(text): ret is the string returned, posted whether the
\* request to the model was made, failed whether no summary came back.
summarize_with_ai(key, text, svc) ==
    IF no_key(key)
    THEN [ret |-> GEMINI_NO_KEY, posted |-> FALSE, failed |-> TRUE]
    ELSE IF svc.kind = "raised"
    THEN [ret |-> GEMINI_RAISED, posted |-> TRUE, failed |-> TRUE]
    ELSE [ret |-> svc.text, posted |-> TRUE, failed |-> FALSE]

\* ------------------------------------------------------ upload_file ----

VARIABLES
    OCR_SPACE_API_KEY,  \* the module's globals, read at startup
    GEMINI_API_KEY,
    disk,               \* the upload directory: what lies at each path
    started,            \* requests received so far
    pc,                 \* where each worker is in upload_file
    request,            \* the request a worker handles
    filepath,           \* upload_file's locals
    full_text,
    summary,
    returned,           \* the value of the return statement that was run
    response,           \* what the client received
    log                 \* what the request did so far

vars ==
    <<OCR_SPACE_API_KEY, GEMINI_API_KEY, disk, started, pc, request, filepath,
      full_text, summary, returned, response, log>>

\* jsonify({'error': text})
JsonError(text) == [type |-> "json", body |-> [error |-> text]]

\* The result carries an error key as well.
JsonResult_with_error(text, s) ==
    [type |-> "json",
     body |-> [extracted_text |-> text, summary |-> s, error |-> NoText]]

\* jsonify({'extracted_text': text, 'summary': s})
JsonResult(text, s) ==
    [type |-> "json", body |-> [extracted_text |-> text, summary |-> s]]

\* Nothing returned yet.
NoResponse == [type |-> "none", body |-> [nothing |-> NoText]]

\* An exception left upload_file: Flask answers 500 with an HTML page.
ServerError == [type |-> "html", body |-> [status500 |-> NoText]]

NO_FILE_PART == Lit("No file part", "none", "none")
NO_SELECTED_FILE == Lit("No selected file", "none", "none")
INVALID_TYPE == Lit("Invalid file type. Please upload a PDF.", "none", "none")
NO_TEXT == Lit("Could not extract any text from this PDF.", "none", "none")

\* str(e) of the exception fitz.open raises
OPEN_FAILED(file) ==
    IF file = Missing
    THEN Lit("no such file", "none", "none")
    ELSE Lit("Failed to open file", "none", "none")

NewLog(tag) ==
    [tag |-> tag, exit |-> "none", saved |-> FALSE, extracted |-> FALSE,
     direct |-> NoText, read |-> 0, readName |-> None, parseFailed |-> FALSE,
     ocrCalls |-> 0, ocrPosts |-> 0, ocrSent |-> 0, ocrFailed |-> FALSE,
     ocrText |-> NoText,
     gemCalls |-> 0, gemPosts |-> 0, gemFailed |-> FALSE,
     removeFailed |-> FALSE]

\* The empty file name is not looked for.
rejection_unnamed(r) ==
    IF ~r.hasFile THEN NO_FILE_PART
    ELSE IF r.filename # <<>> /\ endswith(r.filename, PDF_EXT) THEN NoText
    ELSE INVALID_TYPE

\* The checks before the try block, and the return after it: the error the
\* request is turned down with, NoText when it is accepted.  A FileStorage
\* is true when its file name is not empty.
rejection(r) ==
    IF ~r.hasFile THEN NO_FILE_PART
    ELSE IF r.filename = <<>> THEN NO_SELECTED_FILE
    ELSE IF r.filename # <<>> /\ endswith(r.filename, PDF_EXT) THEN NoText
    ELSE INVALID_TYPE

\* The length is taken of the text as it is.
scanned_unstripped(text) == len(text) < OCR_THRESHOLD

\* len(full_text.strip()) < 100
scanned(text) == len(strip(text)) < OCR_THRESHOLD

\* not full_text.strip()
blank(text) == falsy(strip(text))

\* The OCR result is taken as it is.
is_ocr_error_unchecked(text) == FALSE

\* "OCR.space Error:" in full_text
is_ocr_error(text) == contains(OCR_MARKER, text)

\* The summary is an error only when it begins with the marker.
is_gemini_error_prefix(s) == s.gem = "start"

\* "Gemini Error:" in summary
is_gemini_error(s) == contains(GEMINI_MARKER, s)

\* The file stays.
os_remove_nothing(d, path) == d

\* os.remove(filepath), of a file that is there
os_remove(d, path) == [d EXCEPT ![path] = Missing]

\* os.path.exists(filepath)
os_path_exists(d, path) == d[path] # Missing

Init ==
    /\ OCR_SPACE_API_KEY \in KeyValues
    /\ GEMINI_API_KEY \in KeyValues
    /\ disk = [p \in Paths |-> Missing]
    /\ started = 0
    /\ pc = [w \in Workers |-> "idle"]
    /\ request = [w \in Workers |-> NoRequest]
    /\ filepath = [w \in Workers |-> None]
    /\ full_text = [w \in Workers |-> NoText]
    /\ summary = [w \in Workers |-> NoText]
    /\ returned = [w \in Workers |-> NoResponse]
    /\ response = [w \in Workers |-> NoResponse]
    /\ log = [w \in Workers |-> NewLog(0)]

\* The return statements of the try block and its except clause: the
\* finally clause runs before the response leaves.
Return(w, value, exit, newlog) ==
    /\ returned' = [returned EXCEPT ![w] = value]
    /\ log' = [log EXCEPT ![w] = [newlog EXCEPT !.exit = exit]]
    /\ pc' = [pc EXCEPT ![w] = "finally"]

\* Lines 118-119 and the way on to the summary.
AfterExtraction(w, text, newlog) ==
    IF blank(text)
    THEN Return(w, JsonError(NO_TEXT), "blank", newlog)
    ELSE /\ pc' = [pc EXCEPT ![w] = "summarize"]
         /\ log' = [log EXCEPT ![w] = newlog]
         /\ UNCHANGED returned

\* A worker takes a request, one of requests: lines 96-103, and line 133.
Receive(w, requests) ==
    /\ pc[w] \in {"idle", "done"}
    /\ started < MaxRequests
    /\ \E r \in requests :
        /\ started' = started + 1
        /\ request' = [request EXCEPT ![w] = r]
        /\ filepath' = [filepath EXCEPT ![w] = None]
        /\ full_text' = [full_text EXCEPT ![w] = NoText]
        /\ summary' = [summary EXCEPT ![w] = NoText]
        /\ returned' = [returned EXCEPT ![w] = NoResponse]
        /\ IF rejection(r) = NoText
           THEN /\ pc' = [pc EXCEPT ![w] = "save"]
                /\ response' = [response EXCEPT ![w] = NoResponse]
                /\ log' = [log EXCEPT ![w] = NewLog(started + 1)]
           ELSE /\ pc' = [pc EXCEPT ![w] = "done"]
                /\ response' = [response EXCEPT ![w] = JsonError(rejection(r))]
                /\ log' = [log EXCEPT ![w] =
                             [NewLog(started + 1) EXCEPT !.exit = "rejected"]]
    /\ UNCHANGED <<OCR_SPACE_API_KEY, GEMINI_API_KEY, disk>>

\* Lines 105-106: file.save(filepath)
Save(w) ==
    /\ pc[w] = "save"
    /\ LET path == join(UPLOAD_FOLDER, request[w].filename) IN
        /\ filepath' = [filepath EXCEPT ![w] = path]
        /\ disk' = [disk EXCEPT ![path] = request[w].body]
    /\ log' = [log EXCEPT ![w].saved = TRUE]
    /\ pc' = [pc EXCEPT ![w] = "extract"]
    /\ UNCHANGED <<OCR_SPACE_API_KEY, GEMINI_API_KEY, started, request,
                   full_text, summary, returned, response>>

\* Lines 108-112 (and 118-119 when no OCR is needed, 127-128 when fitz
\* raises): the text of the file at filepath.
Extract(w) ==
    /\ pc[w] = "extract"
    /\ LET file == disk[filepath[w]] IN
        IF file.parse # "ok"
        THEN /\ Return(w, JsonError(OPEN_FAILED(file)), "exception",
                       [log[w] EXCEPT !.parseFailed = TRUE])
             /\ UNCHANGED full_text
        ELSE LET newlog == [log[w] EXCEPT !.extracted = TRUE,
                                          !.direct = file.text,
                                          !.read = file.tag,
                                          !.readName = file.name] IN
             /\ full_text' = [full_text EXCEPT ![w] = file.text]
             /\ IF scanned(file.text)
                THEN /\ pc' = [pc EXCEPT ![w] = "ocr"]
                     /\ log' = [log EXCEPT ![w] = newlog]
                     /\ UNCHANGED returned
                ELSE AfterExtraction(w, file.text, newlog)
    /\ UNCHANGED <<OCR_SPACE_API_KEY, GEMINI_API_KEY, disk, started, request,
                   filepath, summary, response>>

\* Lines 113-119: the OCR fallback.
Ocr(w) ==
    /\ pc[w] = "ocr"
    /\ \E svc \in OcrOutcomes :
        LET r == ocr_with_ocrspace(OCR_SPACE_API_KEY, disk[filepath[w]], svc)
            newlog == [log[w] EXCEPT !.ocrCalls = @ + 1,
                                     !.ocrPosts = @ + (IF r.posted THEN 1 ELSE 0),
                                     !.ocrSent = r.sent,
                                     !.ocrFailed = r.failed,
                                     !.ocrText = r.ret]
        IN  /\ full_text' = [full_text EXCEPT ![w] = r.ret]
            /\ IF is_ocr_error(r.ret)
               THEN Return(w, JsonError(r.ret), "ocr_error", newlog)
               ELSE AfterExtraction(w, r.ret, newlog)
    /\ UNCHANGED <<OCR_SPACE_API_KEY, GEMINI_API_KEY, disk, started, request,
                   filepath, summary, response>>

\* Lines 121-125: the summary.
Summarize(w) ==
    /\ pc[w] = "summarize"
    /\ \E svc \in GeminiOutcomes :
        LET r == summarize_with_ai(GEMINI_API_KEY, full_text[w], svc)
            newlog == [log[w] EXCEPT !.gemCalls = @ + 1,
                                     !.gemPosts = @ + (IF r.posted THEN 1 ELSE 0),
                                     !.gemFailed = r.failed]
        IN  /\ summary' = [summary EXCEPT ![w] = r.ret]
            /\ IF is_gemini_error(r.ret)
               THEN Return(w, JsonError(r.ret), "summary_error", newlog)
               ELSE Return(w, JsonResult(full_text[w], r.ret), "success", newlog)
    /\ UNCHANGED <<OCR_SPACE_API_KEY, GEMINI_API_KEY, disk, started, request,
                   filepath, full_text, response>>

\* Line 131: if filepath and os.path.exists(filepath)
Finally(w) ==
    /\ pc[w] = "finally"
    /\ IF filepath[w] # None /\ os_path_exists(disk, filepath[w])
       THEN /\ pc' = [pc EXCEPT ![w] = "remove"]
            /\ UNCHANGED response
       ELSE /\ pc' = [pc EXCEPT ![w] = "done"]
            /\ response' = [response EXCEPT ![w] = returned[w]]
    /\ UNCHANGED <<OCR_SPACE_API_KEY, GEMINI_API_KEY, disk, started, request,
                   filepath, full_text, summary, returned, log>>

\* Line 132: os.remove(filepath), which raises FileNotFoundError when the
\* file is gone; the exception leaves the finally clause and replaces the
\* value returned.
Remove(w) ==
    /\ pc[w] = "remove"
    /\ IF os_path_exists(disk, filepath[w])
       THEN /\ disk' = os_remove(disk, filepath[w])
            /\ response' = [response EXCEPT ![w] = returned[w]]
            /\ UNCHANGED log
       ELSE /\ response' = [response EXCEPT ![w] = ServerError]
            /\ log' = [log EXCEPT ![w].removeFailed = TRUE]
            /\ UNCHANGED disk
    /\ pc' = [pc EXCEPT ![w] = "done"]
    /\ UNCHANGED <<OCR_SPACE_API_KEY, GEMINI_API_KEY, started, request,
                   filepath, full_text, summary, returned>>

\* A request arrives, whatever the other worker does.
Start(w) == Receive(w, ConcurrentRequests(started + 1))

\* The steps of a request under way.
Step(w) ==
    \/ Save(w)
    \/ Extract(w)
    \/ Ocr(w)
    \/ Summarize(w)
    \/ Finally(w)
    \/ Remove(w)

\* The workers run side by side.
Next == \E w \in Workers : Start(w) \/ Step(w)

Spec == Init /\ [][Next]_vars

\* One request at a time: a request is taken only when no other is under way.
StartAlone(w) ==
    /\ \A v \in Workers : pc[v] \in {"idle", "done"}
    /\ Receive(w, Requests(started + 1))

NextAlone == \E w \in Workers : StartAlone(w) \/ Step(w)

SpecAlone == Init /\ [][NextAlone]_vars

\* ------------------------------------------------------------- claims ----

Done(w) == pc[w] = "done"

Keys(value) == DOMAIN value.body

IsError(value) == value.type = "json" /\ Keys(value) = {"error"}

IsResult(value) ==
    value.type = "json" /\ Keys(value) = {"extracted_text", "summary"}

Marked(text) == contains(OCR_MARKER, text) \/ contains(GEMINI_MARKER, text)

\* C1: with one request at a time, when a request that saved its upload
\* completes, on whatever exit path, no file lies at its path.
C1_FileGoneAtCompletion ==
    [][\A w \in Workers :
         (pc[w] # "done" /\ pc'[w] = "done" /\ log[w].saved)
         => ~os_path_exists(disk', filepath[w])]_vars

\* C1's case: a request that ended by an exception after the save and one
\* that ended in success have both completed, and no file is left.
C1_Witness ==
    \E w, v \in Workers :
        /\ Done(w) /\ log[w].saved /\ log[w].exit = "exception"
        /\ Done(v) /\ log[v].saved /\ log[v].exit = "success"
        /\ \A p \in Paths : ~os_path_exists(disk, p)

\* A request was turned down with this error, and did nothing else.
TurnedDown(w, error) ==
    /\ Done(w)
    /\ response[w] = JsonError(error)
    /\ ~log[w].saved /\ filepath[w] = None
    /\ \A p \in Paths : disk[p].tag # log[w].tag
    /\ log[w].ocrCalls = 0 /\ log[w].gemCalls = 0

\* C2: a request without a file part is answered "No file part"; otherwise
\* one with an empty file name "No selected file"; otherwise one whose name
\* does not end in ".pdf" "Invalid file type. Please upload a PDF."; and none
\* of them saves a file or calls OCR or the summarizer.
C2_Rejections ==
    \A w \in Workers :
        pc[w] # "idle" =>
            LET r == request[w] IN
            /\ ~r.hasFile => TurnedDown(w, NO_FILE_PART)
            /\ (r.hasFile /\ r.filename = <<>>)
               => TurnedDown(w, NO_SELECTED_FILE)
            /\ (r.hasFile /\ r.filename # <<>> /\ ~endswith(r.filename, PDF_EXT))
               => TurnedDown(w, INVALID_TYPE)

\* C2's case: an empty file name and the name "a.PDF" were both turned down.
C2_Witness ==
    \E w, v \in Workers :
        /\ request[w].hasFile /\ request[w].filename = <<>>
        /\ TurnedDown(w, NO_SELECTED_FILE)
        /\ request[v].filename = <<"a", ".", "P", "D", "F">>
        /\ TurnedDown(v, INVALID_TYPE)

\* C3: once the text of an accepted PDF is extracted, the OCR fallback is
\* entered if and only if the trimmed text has fewer than 100 characters.
C3_OcrIffShort ==
    \A w \in Workers :
        log[w].extracted =>
            ((pc[w] = "ocr" \/ log[w].ocrCalls > 0)
             <=> len(strip(log[w].direct)) < OCR_THRESHOLD)

\* C3's case: a text of 100 characters, 99 of them after trimming, went to
\* OCR, and a text of 100 characters after trimming did not.
C3_Witness ==
    \E w, v \in Workers :
        /\ Done(w) /\ log[w].extracted
        /\ len(log[w].direct) = OCR_THRESHOLD
        /\ len(strip(log[w].direct)) = OCR_THRESHOLD - 1
        /\ log[w].ocrCalls = 1
        /\ Done(v) /\ log[v].extracted
        /\ len(strip(log[v].direct)) = OCR_THRESHOLD
        /\ log[v].ocrCalls = 0

\* C4: without GEMINI_API_KEY no request to the model is made, nothing is
\* raised, and every request that reaches the summary ends with the string
\* summarize_with_ai returned, which holds "Gemini Error:", under "error";
\* the same for OCR_SPACE_API_KEY, the OCR fallback and "OCR.space Error:".
C4_MissingKeys ==
    \A w \in Workers :
        /\ GEMINI_API_KEY = "None" =>
            /\ log[w].gemPosts = 0
            /\ (Done(w) /\ log[w].gemCalls > 0) =>
                /\ log[w].exit = "summary_error"
                /\ response[w] = JsonError(summary[w])
                /\ contains(GEMINI_MARKER, summary[w])
        /\ OCR_SPACE_API_KEY = "None" =>
            /\ log[w].ocrPosts = 0
            /\ (Done(w) /\ log[w].ocrCalls > 0) =>
                /\ log[w].exit = "ocr_error"
                /\ response[w] = JsonError(full_text[w])
                /\ contains(OCR_MARKER, full_text[w])

\* C4's case: with neither key, one request reached the summary and one the
\* OCR fallback, and both have completed.
C4_Witness ==
    /\ GEMINI_API_KEY = "None" /\ OCR_SPACE_API_KEY = "None"
    /\ \E w, v \in Workers :
        /\ Done(w) /\ log[w].gemCalls = 1 /\ IsError(response[w])
        /\ Done(v) /\ log[v].ocrCalls = 1 /\ IsError(response[v])

\* C5: with one request at a time, a request has no response until it
\* completes, and then it has one JSON response, either with the keys
\* extracted_text and summary or with the key error alone.
C5_ResponseShape ==
    \A w \in Workers :
        /\ ~Done(w) => response[w] = NoResponse
        /\ Done(w) => /\ response[w].type = "json"
                      /\ IsResult(response[w]) \/ IsError(response[w])
                      /\ ~(IsResult(response[w]) /\ IsError(response[w]))

\* C5's case: a request completed with a result and one with an error.
C5_Witness ==
    \E w, v \in Workers :
        /\ Done(w) /\ IsResult(response[w])
        /\ Done(v) /\ IsError(response[v]) /\ log[v].exit = "blank"

\* C6 as stated: every failure of the local parsing, of the OCR fallback and
\* of the summary is no exception but an error string with one of the two
\* markers, which the client receives under "error".
C6_Original ==
    \A w \in Workers :
        (Done(w) /\ (log[w].parseFailed \/ log[w].ocrFailed \/ log[w].gemFailed))
        => /\ log[w].exit # "exception"
           /\ IsError(response[w])
           /\ Marked(response[w].body.error)

\* C6, amended: a failure of the OCR fallback or of the summary is no
\* exception but the string the function returns, which holds the function's
\* marker and is what the client receives under "error"; a failure of the
\* local parsing is an exception, whose message the client receives under
\* "error".
C6_Amended ==
    \A w \in Workers :
        Done(w) =>
            /\ log[w].ocrFailed =>
                /\ log[w].exit = "ocr_error"
                /\ contains(OCR_MARKER, log[w].ocrText)
                /\ response[w] = JsonError(log[w].ocrText)
            /\ log[w].gemFailed =>
                /\ log[w].exit = "summary_error"
                /\ contains(GEMINI_MARKER, summary[w])
                /\ response[w] = JsonError(summary[w])
            /\ log[w].parseFailed =>
                /\ log[w].exit = "exception"
                /\ response[w] = JsonError(OPEN_FAILED(request[w].body))

\* C6's case: a request whose OCR call failed on the network, and one whose
\* PDF could not be parsed, have completed.
C6_Witness ==
    \E w, v \in Workers :
        /\ Done(w) /\ log[w].ocrFailed /\ log[w].ocrPosts = 1
        /\ response[w] = JsonError(OCR_NETWORK)
        /\ Done(v) /\ log[v].parseFailed
        /\ ~Marked(response[v].body.error)

\* C7: two requests use the same path exactly when their file names are the
\* same, and the bytes a request finds at its path are bytes sent under its
\* file name, by itself or by another request.
C7_SharedPath ==
    \A w, v \in Workers :
        /\ (filepath[w] # None /\ filepath[v] # None)
           => (filepath[w] = filepath[v]
               <=> request[w].filename = request[v].filename)
        /\ log[w].extracted => log[w].readName = request[w].filename

\* C7's case: while w was between its save and its OCR read, v saved over
\* w's file and then removed it: w extracted the text of v's bytes, and its
\* OCR call found no file.
C7_Witness ==
    \E w, v \in Workers :
        /\ w # v
        /\ request[w].filename = request[v].filename
        /\ log[w].saved /\ log[v].saved
        /\ log[w].extracted /\ log[w].read = log[v].tag
        /\ log[w].read # log[w].tag
        /\ OCR_SPACE_API_KEY = "key"
        /\ log[w].ocrCalls = 1 /\ log[w].ocrPosts = 0
        /\ log[w].ocrText = OCR_UNEXPECTED

\* C8: in one request OCR and the summarizer are each called at most once,
\* OCR only before the summarizer, the summarizer only with text that is not
\* blank and, after OCR, holds no "OCR.space Error:"; an OCR result with the
\* marker ends the request with that string as the error, and blank text
\* with "Could not extract any text from this PDF.", without a summarizer
\* call.
C8_SingleShot ==
    \A w \in Workers :
        /\ log[w].ocrCalls <= 1 /\ log[w].ocrPosts <= 1
        /\ log[w].gemCalls <= 1 /\ log[w].gemPosts <= 1
        /\ pc[w] = "ocr" => log[w].ocrCalls = 0 /\ log[w].gemCalls = 0
        /\ (pc[w] = "summarize" \/ log[w].gemCalls > 0) =>
            /\ ~blank(full_text[w])
            /\ log[w].ocrCalls > 0 => ~contains(OCR_MARKER, log[w].ocrText)
        /\ (log[w].ocrCalls > 0 /\ contains(OCR_MARKER, log[w].ocrText)) =>
            /\ pc[w] # "summarize" /\ log[w].gemCalls = 0
            /\ Done(w) => response[w] = JsonError(log[w].ocrText)
        /\ (log[w].extracted /\ blank(full_text[w])
            /\ pc[w] \in {"finally", "remove", "done"}) =>
            /\ log[w].gemCalls = 0
            /\ Done(w) => response[w] = JsonError(NO_TEXT)

\* C8's case: a request ended by an OCR error and one by blank OCR text,
\* each after one OCR call.
C8_Witness ==
    \E w, v \in Workers :
        /\ Done(w) /\ log[w].ocrPosts = 1 /\ log[w].exit = "ocr_error"
        /\ Done(v) /\ log[v].ocrPosts = 1 /\ log[v].exit = "blank"
        /\ len(full_text[v]) > 0

\* C9 as stated: once two requests with the same file name have completed,
\* no file lies at their path, and neither's os.remove failed.
C9_Original ==
    \A w, v \in Workers :
        (w # v /\ Done(w) /\ Done(v) /\ log[w].saved /\ log[v].saved
         /\ filepath[w] = filepath[v])
        => /\ ~os_path_exists(disk, filepath[w])
           /\ ~log[w].removeFailed /\ ~log[v].removeFailed

\* C10: a result is returned only if the summary holds "Gemini Error:"
\* nowhere and, after OCR, the OCR text holds "OCR.space Error:" nowhere; text
\* that OCR or the model delivered with a marker in it is returned as an
\* error; text of 100 or more characters extracted from the PDF is returned
\* in a result even with "OCR.space Error:" in it.
C10_Containment ==
    \A w \in Workers :
        Done(w) =>
            /\ IsResult(response[w]) =>
                /\ ~contains(GEMINI_MARKER, summary[w])
                /\ log[w].ocrCalls > 0 => ~contains(OCR_MARKER, log[w].ocrText)
            /\ (log[w].ocrCalls > 0 /\ ~log[w].ocrFailed
                /\ contains(OCR_MARKER, log[w].ocrText))
               => response[w] = JsonError(log[w].ocrText)
            /\ (log[w].gemCalls > 0 /\ ~log[w].gemFailed
                /\ contains(GEMINI_MARKER, summary[w]))
               => response[w] = JsonError(summary[w])
            /\ (log[w].extracted /\ ~scanned(log[w].direct)
                /\ log[w].gemCalls > 0 /\ ~contains(GEMINI_MARKER, summary[w]))
               => response[w] = JsonResult(log[w].direct, summary[w])

\* C10's case: a PDF text with "OCR.space Error:" in it came back in a
\* result, and an OCR text with the marker inside it came back as an error.
C10_Witness ==
    \E w, v \in Workers :
        /\ Done(w) /\ IsResult(response[w])
        /\ contains(OCR_MARKER, response[w].body.extracted_text)
        /\ Done(v) /\ log[v].ocrCalls = 1 /\ ~log[v].ocrFailed
        /\ log[v].ocrText.ocr = "inside"
        /\ response[v] = JsonError(log[v].ocrText)

====
